---- MODULE Spec2Model ----
(***************************************************************************)
(* Capacitated deferred-acceptance matching of the PMIS-AI engine.         *)
(*                                                                         *)
(*   src/src/matching_algorithm.py           StableMatchingAlgorithm       *)
(*   src/PMIS-AI-Engine/matching_algorithm.py StableMatchingEngine         *)
(*   src/app.py                              run_allocation, matcher       *)
(*                                                                         *)
(* One loop iteration of the proposal loop is one step of the model.       *)
(* free_candidates.pop() returns an arbitrary element of the set, so the   *)
(* candidate picked in a step is any free candidate.                       *)
(***************************************************************************)
EXTENDS Integers, Sequences, FiniteSets, TLC

\* ------------------------------------------------------------- universe
Candidates == {"A", "B", "C"}
Positions  == {"P1", "P2"}
\* capacities of the instances drawn by Init range over 1..MaxCapacity
MaxCapacity == 2
\* the runs that may be made on the one StableMatchingAlgorithm instance
Runs == {1, 2}
\* the dict objects self.matches may be bound to: 0 is the one made by
\* __init__, r the one made by run r (line 163)
Refs == {0} \cup Runs

\* ------------------------------------------------------------- helpers
Range(s) == {s[i] : i \in DOMAIN s}

Min(a, b) == IF a < b THEN a ELSE b

\* list.index(x), 0-based: the first occurrence
IndexOf(s, x) == (CHOOSE i \in DOMAIN s : s[i] = x /\ \A j \in 1..(i - 1) : s[j] # x) - 1

\* the duplicate-free lists over S
Perms(S) == {s \in [1..Cardinality(S) -> S] : Range(s) = S}
DupFreeLists(S) == UNION {Perms(T) : T \in SUBSET S}

\* dict.get(key, default)
Get(d, k, default) == IF k \in DOMAIN d THEN d[k] ELSE default

\* a deletion that leaves the key in the dict
Del_KeepsKey(d, k) == d

\* del d[k]
Del(d, k) == [x \in (DOMAIN d) \ {k} |-> d[x]]

\* d[k] = v
Put(d, k, v) == [x \in (DOMAIN d) \cup {k} |-> IF x = k THEN v ELSE d[x]]

EmptyDict == [x \in {} |-> 0]

\* a removal that leaves the list as it is
Remove_KeepsEntry(s, x) == s

\* list.remove(x): removes the first occurrence
Remove(s, x) ==
    LET i == IndexOf(s, x) + 1
    IN  SubSeq(s, 1, i - 1) \o SubSeq(s, i + 1, Len(s))

\* float('inf') of lines 217 and 223: above every list index
Inf == 1000

\* ------------------------------------------------- apply_quota_boost
\* lines 114-115: rural candidates and reserved categories are boosted
IsBoosted(candidate) ==
    candidate.is_rural \/ candidate.social_category \in {"SC", "ST", "OBC"}

\* a merge that puts the regular entries first
Interleave_RegularFirst(boosted_list, regular_list) == regular_list \o boosted_list

\* lines 121-133: two boosted entries, then one regular entry, repeated
RECURSIVE Interleave(_, _)
Interleave(boosted_list, regular_list) ==
    IF boosted_list = <<>> /\ regular_list = <<>> THEN <<>>
    ELSE LET nb == Min(2, Len(boosted_list))
             nr == Min(1, Len(regular_list))
         IN  SubSeq(boosted_list, 1, nb) \o SubSeq(regular_list, 1, nr)
             \o Interleave(SubSeq(boosted_list, nb + 1, Len(boosted_list)),
                           SubSeq(regular_list, nr + 1, Len(regular_list)))

\* a merge that puts every boosted entry before every regular entry
BoostList_BoostedFirst(pref_list, cands) ==
    LET IsB(c) == c \in DOMAIN cands /\ IsBoosted(cands[c])
        IsR(c) == c \in DOMAIN cands /\ ~IsBoosted(cands[c])
    IN  SelectSeq(pref_list, IsB) \o SelectSeq(pref_list, IsR)

\* lines 106-135, for one internship: ids with no candidate record are dropped
BoostList(pref_list, cands) ==
    LET IsB(c) == c \in DOMAIN cands /\ IsBoosted(cands[c])
        IsR(c) == c \in DOMAIN cands /\ ~IsBoosted(cands[c])
    IN  Interleave(SelectSeq(pref_list, IsB), SelectSeq(pref_list, IsR))

\* lines 88-137: the boosted internship preferences (the candidate
\* preferences are returned unchanged)
apply_quota_boost(ip, cands) ==
    [p \in DOMAIN ip |-> BoostList(ip[p], cands)]

\* ------------------------------------------- check_quota_constraints
\* lines 76 and 81: round(rural_count / total_allocated * 100, 2), in
\* hundredths of a percent. Below 32 allocated candidates no quotient lies
\* half-way between two hundredths, so round() yields the nearest one.
RuralPercentage(rural_count, total_allocated) ==
    IF total_allocated > 0
    THEN (20000 * rural_count + total_allocated) \div (2 * total_allocated)
    ELSE 0

\* a comparison that wants more than the target
MeetsRuralQuota_Strict(rural_count, total_allocated) ==
    IF total_allocated > 0 THEN rural_count * 100 > 30 * total_allocated ELSE FALSE

\* lines 76 and 83: rural_percentage >= 30.0 on the unrounded percentage,
\* which is 0 when nothing is allocated
MeetsRuralQuota(rural_count, total_allocated) ==
    IF total_allocated > 0 THEN rural_count * 100 >= 30 * total_allocated ELSE FALSE

\* lines 60-86; a matched id without a record counts as allocated and as
\* not rural (lines 69-70)
check_quota_constraints(m, cands) ==
    LET total_allocated == Cardinality(DOMAIN m)
        rural_count == Cardinality({c \in DOMAIN m :
                            c \in DOMAIN cands /\ cands[c].is_rural})
    IN  [total_allocated   |-> total_allocated,
         rural_count       |-> rural_count,
         rural_percentage  |-> RuralPercentage(rural_count, total_allocated),
         meets_rural_quota |-> MeetsRuralQuota(rural_count, total_allocated)]

\* ------------------------------------------- run_stable_matching
\* lines 168-172: rank of each candidate in a preference list; the dict
\* comprehension keeps the last index of an id that is listed twice
Rankings(pref_list) ==
    [c \in Range(pref_list) |->
        (CHOOSE i \in DOMAIN pref_list :
            pref_list[i] = c /\ \A j \in (i + 1)..Len(pref_list) : pref_list[j] # c) - 1]

\* a bound of one iteration for each candidate
MaxIterations_PerCandidate(cp, ip) == Cardinality(DOMAIN cp)

\* line 175
MaxIterations(cp, ip) == Cardinality(DOMAIN cp) * Cardinality(DOMAIN ip)

\* a loop that runs as long as a candidate is free
LoopCondition_Unbounded(free, iter, cp, ip) == free # {}

\* line 177
LoopCondition(free, iter, cp, ip) == free # {} /\ iter < MaxIterations(cp, ip)

\* line 187
Exhausted(proposal_index, candidate_prefs) == proposal_index >= Len(candidate_prefs)

\* a lookup that lets every candidate through
IsAcceptable_Always(c, ranking) == TRUE

\* line 200
IsAcceptable(c, ranking) == c \in DOMAIN ranking

\* line 204
CapacityOf(caps, p) == Get(caps, p, 1)

\* a capacity test that is off by one
HasSpace_OffByOne(current_matches, capacity) == Len(current_matches) <= capacity

\* line 207
HasSpace(current_matches, capacity) == Len(current_matches) < capacity

\* lines 213-220: [candidate, rank] of the worst current match; the first of
\* the held candidates with the largest rank, None and -1 for an empty list
RECURSIVE WorstScan(_, _, _, _)
WorstScan(current_matches, ranking, worst_candidate, worst_rank) ==
    IF current_matches = <<>>
    THEN [candidate |-> worst_candidate, rank |-> worst_rank]
    ELSE LET matched_candidate == Head(current_matches)
             rank == Get(ranking, matched_candidate, Inf)
         IN  IF rank > worst_rank
             THEN WorstScan(Tail(current_matches), ranking, matched_candidate, rank)
             ELSE WorstScan(Tail(current_matches), ranking, worst_candidate, worst_rank)

\* a scan that stops at the first held candidate
WorstMatch_FirstHeld(current_matches, ranking) ==
    IF current_matches = <<>> THEN [candidate |-> "None", rank |-> -1]
    ELSE [candidate |-> Head(current_matches),
          rank |-> Get(ranking, Head(current_matches), Inf)]

WorstMatch(current_matches, ranking) ==
    WorstScan(current_matches, ranking, "None", -1)

\* a comparison that keeps the better-ranked candidate out
Replaces_Flipped(new_candidate_rank, worst_rank) == new_candidate_rank > worst_rank

\* line 225
Replaces(new_candidate_rank, worst_rank) == new_candidate_rank < worst_rank

\* The branch one iteration takes for the popped candidate c, on the state
\* st = [matches, internship_current_matches, candidate_proposals,
\*       free_candidates, iteration] (lines 184-236). The two defaultdicts
\* are read with their default: 0 proposals, an empty list of matches.
Branch(st, c, cp, ip, caps) ==
    LET candidate_prefs == Get(cp, c, <<>>)
        proposal_index  == Get(st.candidate_proposals, c, 0)
    IN  IF Exhausted(proposal_index, candidate_prefs) THEN "exhausted"
        ELSE LET internship_id == candidate_prefs[proposal_index + 1]
             IN  IF internship_id \notin DOMAIN ip THEN "missing"
                 ELSE IF ~IsAcceptable(c, Rankings(ip[internship_id])) THEN "unacceptable"
                 ELSE LET current_matches ==
                              Get(st.internship_current_matches, internship_id, <<>>)
                          ranking == Rankings(ip[internship_id])
                      IN  IF HasSpace(current_matches, CapacityOf(caps, internship_id))
                          THEN "accept"
                          ELSE IF Replaces(Get(ranking, c, Inf),
                                           WorstMatch(current_matches, ranking).rank)
                               THEN "replace"
                               ELSE "reject"

\* One iteration of the loop (lines 178-236) for the popped candidate c
LoopBody(st, c, cp, ip, caps) ==
    LET popped == [st EXCEPT !.iteration = @ + 1, !.free_candidates = @ \ {c}]
        candidate_prefs == Get(cp, c, <<>>)
        proposal_index  == Get(st.candidate_proposals, c, 0)
        branch == Branch(st, c, cp, ip, caps)
    IN  IF branch = "exhausted" THEN popped
        ELSE
        LET internship_id == candidate_prefs[proposal_index + 1]
            proposed == [popped EXCEPT
                            !.candidate_proposals = Put(@, c, proposal_index + 1)]
        IN  IF branch \in {"missing", "unacceptable", "reject"}
            THEN [proposed EXCEPT !.free_candidates = @ \cup {c}]
            ELSE
            LET current_matches ==
                    Get(st.internship_current_matches, internship_id, <<>>)
            IN  IF branch = "accept"
                THEN [proposed EXCEPT
                        !.matches = Put(@, c, internship_id),
                        !.internship_current_matches =
                            Put(@, internship_id, Append(current_matches, c))]
                ELSE
                LET worst_candidate ==
                        WorstMatch(current_matches, Rankings(ip[internship_id])).candidate
                IN  [proposed EXCEPT
                        !.matches = Put(Del(@, worst_candidate), c, internship_id),
                        !.internship_current_matches =
                            Put(@, internship_id,
                                Append(Remove(current_matches, worst_candidate), c)),
                        !.free_candidates = @ \cup {worst_candidate}]

\* ------------------------- gale_shapley_matching (PMIS-AI-Engine)
\* lines 98-107: [candidate, rank] of the worst current match among those the
\* internship lists; the rank is list.index, the first occurrence
RECURSIVE GSWorstScan(_, _, _, _)
GSWorstScan(current_matches, internship_prefs, worst_candidate, worst_rank) ==
    IF current_matches = <<>>
    THEN [candidate |-> worst_candidate, rank |-> worst_rank]
    ELSE LET current_candidate == Head(current_matches)
         IN  IF /\ current_candidate \in Range(internship_prefs)
                /\ IndexOf(internship_prefs, current_candidate) > worst_rank
             THEN GSWorstScan(Tail(current_matches), internship_prefs, current_candidate,
                              IndexOf(internship_prefs, current_candidate))
             ELSE GSWorstScan(Tail(current_matches), internship_prefs,
                              worst_candidate, worst_rank)

GSWorstMatch(current_matches, internship_prefs) ==
    GSWorstScan(current_matches, internship_prefs, "None", -1)

\* line 90
GSHasSpace(current_matches, capacity) == Len(current_matches) < capacity

\* lines 110-113
GSReplaces(c, internship_prefs, worst) ==
    /\ c \in Range(internship_prefs)
    /\ worst.candidate # "None"
    /\ IndexOf(internship_prefs, c) < worst.rank

\* The branch one iteration takes for the popped candidate c, on the state
\* st = [tentative_matches, candidate_next_proposal, free_candidates,
\*       iteration] (lines 79-123)
GSBranch(st, c, cp, ip, caps) ==
    IF st.candidate_next_proposal[c] >= Len(cp[c]) THEN "exhausted"
    ELSE LET internship_id == cp[c][st.candidate_next_proposal[c] + 1]
         IN  IF internship_id \notin DOMAIN st.tentative_matches
                \/ internship_id \notin DOMAIN caps
             THEN "keyerror"
             ELSE LET current_matches == st.tentative_matches[internship_id]
                  IN  IF GSHasSpace(current_matches, caps[internship_id]) THEN "accept"
                      ELSE IF GSReplaces(c, ip[internship_id],
                                         GSWorstMatch(current_matches, ip[internship_id]))
                           THEN "replace"
                           ELSE "reject"

\* One iteration of the loop (lines 75-123) for the popped candidate c; a
\* KeyError (lines 87-88) leaves the function after lines 76 and 84
GSLoopBody(st, c, cp, ip, caps) ==
    LET popped == [st EXCEPT !.iteration = @ + 1, !.free_candidates = @ \ {c}]
        branch == GSBranch(st, c, cp, ip, caps)
    IN  IF branch = "exhausted" THEN popped
        ELSE
        LET internship_id == cp[c][st.candidate_next_proposal[c] + 1]
            proposed == [popped EXCEPT !.candidate_next_proposal[c] = @ + 1]
        IN  CASE branch = "keyerror" -> proposed
              [] branch = "reject" -> [proposed EXCEPT !.free_candidates = @ \cup {c}]
              [] branch = "accept" ->
                    [proposed EXCEPT !.tentative_matches[internship_id] = Append(@, c)]
              [] branch = "replace" ->
                    LET worst_candidate ==
                            GSWorstMatch(st.tentative_matches[internship_id],
                                         ip[internship_id]).candidate
                    IN  [proposed EXCEPT
                            !.tentative_matches[internship_id] =
                                Append(Remove(@, worst_candidate), c),
                            !.free_candidates = @ \cup {worst_candidate}]

\* ------------------------- enforce_diversity_quotas (PMIS-AI-Engine)
\* lines 142-143: the candidates placed, over all positions
Placed(m) == UNION {Range(m[p]) : p \in DOMAIN m}

\* line 146: candidate_lookup[candidate_id] of a placed candidate that has no
\* row raises a KeyError
EnforceKeyError(m, cands) == ~(Placed(m) \subseteq DOMAIN cands)

\* lines 137-152 and 157-160: whether both targets are met; percentages are
\* compared as fractions, 0.3 and 0.22 being 30/100 and 22/100
DiversityTargetsMet(m, cands) ==
    LET total_placed == Cardinality(Placed(m))
        rural_count == Cardinality({c \in Placed(m) : cands[c].is_rural})
        sc_st_count == Cardinality({c \in Placed(m) :
                           cands[c].social_category \in {"SC", "ST"}})
    IN  IF total_placed > 0
        THEN /\ 100 * rural_count >= 30 * total_placed
             /\ 100 * sc_st_count >= 22 * total_placed
        ELSE FALSE

\* a step that removes the last candidate of every position when a target
\* is missed
enforce_diversity_quotas_Rebalance(m, cands) ==
    IF DiversityTargetsMet(m, cands) THEN m
    ELSE [p \in DOMAIN m |-> SubSeq(m[p], 1, Len(m[p]) - 1)]

\* lines 128-169: the statistics are printed and matches is returned
enforce_diversity_quotas(m, cands) == m

\* ------------------------------------------------ verify_stability
\* lines 266-269: the candidates matched to p
MatchedAt(m, p) == {c \in DOMAIN m : m[c] = p}

\* line 276
CurrentRank(candidate_prefs, current_internship) ==
    IF current_internship \in Range(candidate_prefs)
    THEN IndexOf(candidate_prefs, current_internship)
    ELSE Len(candidate_prefs)

\* lines 278-294: the pair (c, the i-th entry of c's list) is reported
BlockingPairFound(m, cp, ip, c, i) ==
    LET preferred_internship == Get(cp, c, <<>>)[i + 1]
        internship_prefs == Get(ip, preferred_internship, <<>>)
    IN  /\ c \in Range(internship_prefs)
        /\ \E matched_candidate \in MatchedAt(m, preferred_internship) :
              /\ matched_candidate \in Range(internship_prefs)
              /\ IndexOf(internship_prefs, c) < IndexOf(internship_prefs, matched_candidate)

\* lines 253-297
verify_stability(m, cp, ip) ==
    ~ \E c \in DOMAIN m :
        \E i \in 0..(CurrentRank(Get(cp, c, <<>>), m[c]) - 1) :
            BlockingPairFound(m, cp, ip, c, i)

\* --------------------------------- generate_preference_lists (ranking_engine)
\* eligibility_filter, lines 158-160: the age is in 21..24
eligibility_filter(candidate_age) == 21 <= candidate_age /\ candidate_age <= 24

\* calculate_match_score, lines 178-228: an ineligible pair scores 0, an
\* eligible pair has the score computed from the texts and the skills
calculate_match_score(candidate_age, pair_score) ==
    IF eligibility_filter(candidate_age)
    THEN [overall_score |-> pair_score, eligible |-> TRUE]
    ELSE [overall_score |-> 0, eligible |-> FALSE]

\* list.sort(key=score, reverse=True), lines 286 and 296: highest score
\* first, entries of equal score in the order they had
RECURSIVE SortByScore(_, _)
SortByScore(items, score) ==
    IF items = <<>> THEN <<>>
    ELSE LET i == CHOOSE i \in DOMAIN items :
                     /\ \A j \in DOMAIN items : score[items[j]] <= score[items[i]]
                     /\ \A j \in 1..(i - 1) : score[items[j]] < score[items[i]]
         IN  <<items[i]>>
             \o SortByScore(SubSeq(items, 1, i - 1) \o SubSeq(items, i + 1, Len(items)),
                            score)

\* lines 258-305: [candidate_preferences, internship_preferences] for the
\* candidates and internships in the order given; match_scores, and so
\* internship_preferences, has a key for an internship only if there is a
\* candidate (lines 268-269)
generate_preference_lists(cand_list, intern_list, ages, scores) ==
    LET data(c, p) == calculate_match_score(ages[c], scores[<<c, p>>])
        candidate_scores(c) == [p \in Range(intern_list) |-> data(c, p).overall_score]
        match_scores(p) == [c \in Range(cand_list) |-> data(c, p).overall_score]
    IN  [candidate_preferences |->
            [c \in Range(cand_list) |->
                LET Eligible(p) == data(c, p).eligible
                IN  SortByScore(SelectSeq(intern_list, Eligible), candidate_scores(c))],
         internship_preferences |->
            IF cand_list = <<>> THEN EmptyDict
            ELSE [p \in Range(intern_list) |->
                    LET Eligible(c) == data(c, p).eligible /\ data(c, p).overall_score > 0
                    IN  SortByScore(SelectSeq(cand_list, Eligible), match_scores(p))]]

\* --------------------- greedy_matching (src/matching_algorithm.py)
\* a list that is left in the order it has
sorted_scores_Unsorted(score_list) == score_list

\* line 76: sorted(scores, key=score, reverse=True)
sorted_scores(score_list) ==
    SortByScore(score_list, [e \in Range(score_list) |-> e.score])

\* line 92: the candidate is already assigned or the job has no spots left
SkipsEntry(candidate_id, job_id, assigned, spots) ==
    candidate_id \in assigned \/ spots[job_id] <= 0

\* lines 96-104: the allocation made for a score entry
Allocation(score_entry, made) ==
    [candidate_id  |-> score_entry.candidate_id,
     job_id        |-> score_entry.job_id,
     score         |-> score_entry.score,
     allocation_id |-> Len(made) + 1]

\* ------------------------------------------------------------- state
VARIABLES
    \* the arguments of the run (app.py lines 169-179) and the loaded data
    candidate_preferences,      \* dict: candidate id -> list of internship ids
    internship_preferences,     \* dict: internship id -> list of candidate ids
    candidates,                 \* dict: candidate id -> its record
    internship_capacities,      \* self.internship_capacities (load_data, line 40)
    internships,                \* dict: internship id -> internship['capacity']
    apply_quotas,
    implementation,             \* the class whose matching function is called
    \* the StableMatchingAlgorithm instance (lines 13-16)
    matches_ref,                \* the dict object self.matches is bound to
    heap,                       \* the contents of each dict object
    internship_current_matches, \* self.internship_current_matches
    candidate_proposals,        \* self.candidate_proposals
    \* the locals of each call of run_stable_matching, and what it returned
    pc,
    free_candidates,
    iteration,
    result,
    is_stable,                  \* app.py line 182
    \* the locals of a call of gale_shapley_matching (it runs in slot 1)
    tentative_matches,
    candidate_next_proposal,
    final_matches,              \* run_complete_allocation, line 197
    \* the data generate_preference_lists builds the lists from
    age,                        \* dict: candidate id -> candidate['age']
    overall_score,              \* dict: <<candidate id, internship id>> -> the
                                \* score of the pair, in units of 0.0001
    \* a call of MatchingAlgorithm.greedy_matching (src/matching_algorithm.py)
    scores,                     \* list of the scored pairs, as passed
    spots_available,            \* dict: job id -> job['spots_available']
    available_spots,
    assigned_candidates,
    allocations,
    score_index                 \* entries of sorted_scores the loop has visited

ranking == <<age, overall_score>>
greedy  == <<scores, spots_available, available_spots, assigned_candidates,
             allocations, score_index>>
inputs == <<candidate_preferences, internship_preferences, candidates,
            internship_capacities, internships, apply_quotas, implementation,
            ranking, greedy>>
engine == <<matches_ref, heap, internship_current_matches, candidate_proposals>>
locals == <<pc, free_candidates, iteration, result, is_stable>>
gs     == <<tentative_matches, candidate_next_proposal, final_matches>>
vars   == <<inputs, engine, locals, gs>>

\* lines 155-159: the internship preferences the loop runs on
MatchedOn(ip, cands, quotas) ==
    IF quotas THEN apply_quota_boost(ip, cands) ELSE ip

EnginePrefs == MatchedOn(internship_preferences, candidates, apply_quotas)

\* ------------------------------------------------------------- instances
General == [is_rural |-> FALSE, social_category |-> "General"]
Rural   == [is_rural |-> TRUE,  social_category |-> "General"]

\* c lists p iff p lists c
Mutual(cp, ip) ==
    \A c \in DOMAIN cp : \A p \in DOMAIN ip :
        (p \in Range(cp[c])) <=> (c \in Range(ip[p]))

DupFree(s) == \A i, j \in DOMAIN s : s[i] = s[j] => i = j

\* duplicate-free strict lists over the two universes, mutually consistent,
\* a record for every candidate and a capacity >= 1 for every position
WellFormed ==
    /\ DOMAIN candidate_preferences = DOMAIN candidates
    /\ \A c \in DOMAIN candidate_preferences :
          /\ DupFree(candidate_preferences[c])
          /\ Range(candidate_preferences[c]) \subseteq DOMAIN internship_preferences
    /\ \A p \in DOMAIN internship_preferences :
          /\ DupFree(internship_preferences[p])
          /\ Range(internship_preferences[p]) \subseteq DOMAIN candidate_preferences
          /\ CapacityOf(internship_capacities, p) >= 1
    /\ Mutual(candidate_preferences, internship_preferences)

\* The lists range over every well-formed pair of families over the three
\* candidates and over one or two positions. The families are closed under
\* renaming candidates and positions, so the capacities are drawn in
\* ascending order and the rural candidates as a prefix of the candidates
\* without losing an instance.
PositionSets == {{"P1"}, {"P1", "P2"}}

AscendingCapacities(D) ==
    {caps \in [D -> 1..MaxCapacity] : "P2" \in D => caps["P1"] <= caps["P2"]}

RuralSets == {{"A"}, {"A", "B"}}

InitInputsWellFormed(quotas) ==
    \E D \in PositionSets :
        /\ candidate_preferences \in [Candidates -> DupFreeLists(D)]
        /\ internship_preferences \in
              {ip \in [D -> DupFreeLists(Candidates)] :
                  Mutual(candidate_preferences, ip)}
        /\ internship_capacities \in AscendingCapacities(D)
        /\ apply_quotas \in quotas
        /\ candidates \in
              IF apply_quotas
              THEN {[c \in Candidates |-> IF c \in S THEN Rural ELSE General] :
                        S \in RuralSets}
              ELSE {[c \in Candidates |-> General]}

\* Arbitrary lists, duplicates allowed, no longer than the universe listed,
\* for the candidates A and B and capacity 1: a candidate may list a position
\* that does not list it, that has no preference list, or a position twice.
AnyLists(S) == UNION {[1..n -> S] : n \in 0..Cardinality(S)}

InitInputsAny(quotas) ==
    /\ candidate_preferences \in [{"A", "B"} -> AnyLists(Positions)]
    /\ internship_preferences \in
          UNION {[D -> AnyLists({"A", "B"})] : D \in PositionSets}
    /\ internship_capacities = [p \in Positions |-> 1]
    /\ apply_quotas \in quotas
    /\ candidates = ("A" :> Rural) @@ ("B" :> General)

\* run_stable_matching is called with and without quota boosting;
\* gale_shapley_matching has no boosting
InitInputs ==
    \/ /\ implementation = "StableMatchingAlgorithm"
       /\ (InitInputsWellFormed(BOOLEAN) \/ InitInputsAny(BOOLEAN))
    \/ /\ implementation = "StableMatchingEngine"
       /\ (InitInputsWellFormed({FALSE}) \/ InitInputsAny({FALSE}))

InitEngine ==
    /\ matches_ref = 0
    /\ heap = [o \in Refs |-> EmptyDict]
    /\ internship_current_matches = EmptyDict
    /\ candidate_proposals = EmptyDict

NoResult ==
    [matches |-> 0, quota_stats |-> check_quota_constraints(EmptyDict, EmptyDict),
     iterations |-> 0, algorithm_success |-> FALSE]

\* the lists were handed to the matcher as they are: no data to build them from
NoRankingData ==
    /\ age = EmptyDict
    /\ overall_score = EmptyDict

\* load_data, lines 38-40: the matcher stored the capacity of every record
LoadedCapacities == internships = internship_capacities

\* greedy_matching is not called
NoGreedyCall ==
    /\ scores = <<>>
    /\ spots_available = EmptyDict
    /\ available_spots = EmptyDict
    /\ assigned_candidates = {}
    /\ allocations = <<>>
    /\ score_index = 0

\* no call has been made yet
NoCall ==
    /\ pc = [r \in Runs |-> "idle"]
    /\ free_candidates = [r \in Runs |-> {}]
    /\ iteration = [r \in Runs |-> 0]
    /\ result = [r \in Runs |-> NoResult]
    /\ is_stable = [r \in Runs |-> FALSE]
    /\ tentative_matches = EmptyDict
    /\ candidate_next_proposal = EmptyDict
    /\ final_matches = EmptyDict

InitCalls == NoCall /\ NoGreedyCall

InitLocals == NoRankingData /\ LoadedCapacities /\ InitCalls

Init == InitInputs /\ InitEngine /\ InitLocals

\* ------------------------------------------------------------- actions
\* what run r sees at an iteration boundary
View(r) ==
    [matches                    |-> heap[matches_ref],
     internship_current_matches |-> internship_current_matches,
     candidate_proposals        |-> candidate_proposals,
     free_candidates            |-> free_candidates[r],
     iteration                  |-> iteration[r]]

Store(r, st) ==
    /\ heap' = [heap EXCEPT ![matches_ref] = st.matches]
    /\ internship_current_matches' = st.internship_current_matches
    /\ candidate_proposals' = st.candidate_proposals
    /\ free_candidates' = [free_candidates EXCEPT ![r] = st.free_candidates]
    /\ iteration' = [iteration EXCEPT ![r] = st.iteration]
    /\ UNCHANGED <<inputs, matches_ref, pc, result, is_stable, gs>>

\* an initialisation that keeps the dicts of the instance as they are
Start_KeepsDicts(r) ==
    /\ implementation = "StableMatchingAlgorithm"
    /\ pc[r] = "idle"
    /\ pc' = [pc EXCEPT ![r] = "loop"]
    /\ free_candidates' = [free_candidates EXCEPT ![r] = DOMAIN candidate_preferences]
    /\ iteration' = [iteration EXCEPT ![r] = 0]
    /\ UNCHANGED <<inputs, engine, result, is_stable, gs>>

\* lines 153-175: run r is called and initialises the data structures
Start(r) ==
    /\ implementation = "StableMatchingAlgorithm"
    /\ pc[r] = "idle"
    /\ pc' = [pc EXCEPT ![r] = "loop"]
    /\ free_candidates' = [free_candidates EXCEPT ![r] = DOMAIN candidate_preferences]
    /\ matches_ref' = r
    /\ heap' = [heap EXCEPT ![r] = EmptyDict]
    /\ internship_current_matches' = EmptyDict
    /\ candidate_proposals' = EmptyDict
    /\ iteration' = [iteration EXCEPT ![r] = 0]
    /\ UNCHANGED <<inputs, result, is_stable, gs>>

\* lines 177-191: the loop condition holds for run r, pop() returns c and
\* the iteration takes the given branch
Taken(r, c, branch) ==
    /\ implementation = "StableMatchingAlgorithm"
    /\ pc[r] = "loop"
    /\ LoopCondition(free_candidates[r], iteration[r],
                     candidate_preferences, EnginePrefs)
    /\ Branch(View(r), c, candidate_preferences, EnginePrefs,
              internship_capacities) = branch

\* lines 178-236: the state after that iteration
Iterated(r, c) ==
    LoopBody(View(r), c, candidate_preferences, EnginePrefs, internship_capacities)

\* lines 187-189: the popped candidate has exhausted its list and is dropped
PopExhausted(r) ==
    \E c \in free_candidates[r] :
        /\ Taken(r, c, "exhausted")
        /\ Store(r, Iterated(r, c))

\* lines 195-197: the internship proposed to has no preference list
ProposeMissing(r) ==
    \E c \in free_candidates[r] :
        /\ Taken(r, c, "missing")
        /\ Store(r, Iterated(r, c))

\* lines 200-202: the internship proposed to does not list the candidate
ProposeUnacceptable(r) ==
    \E c \in free_candidates[r] :
        /\ Taken(r, c, "unacceptable")
        /\ Store(r, Iterated(r, c))

\* lines 207-210: the internship has space and accepts
Accept(r) ==
    \E c \in free_candidates[r] :
        /\ Taken(r, c, "accept")
        /\ Store(r, Iterated(r, c))

\* lines 225-233: the internship is full and replaces its worst match
Replace(r) ==
    \E c \in free_candidates[r] :
        /\ Taken(r, c, "replace")
        /\ Store(r, Iterated(r, c))

\* lines 234-236: the internship is full and rejects
Reject(r) ==
    \E c \in free_candidates[r] :
        /\ Taken(r, c, "reject")
        /\ Store(r, Iterated(r, c))

\* lines 238-251: the loop is left and the result is returned
Return(r) ==
    /\ implementation = "StableMatchingAlgorithm"
    /\ pc[r] = "loop"
    /\ ~LoopCondition(free_candidates[r], iteration[r],
                      candidate_preferences, EnginePrefs)
    /\ result' = [result EXCEPT ![r] =
          [matches           |-> matches_ref,
           quota_stats       |-> check_quota_constraints(heap[matches_ref], candidates),
           iterations        |-> iteration[r],
           algorithm_success |-> TRUE]]
    /\ pc' = [pc EXCEPT ![r] = "returned"]
    /\ UNCHANGED <<inputs, engine, free_candidates, iteration, is_stable, gs>>

\* app.py lines 181-186: run_allocation verifies what the run returned,
\* against the preference lists it passed to the run
Verify(r) ==
    /\ implementation = "StableMatchingAlgorithm"
    /\ pc[r] = "returned"
    /\ is_stable' = [is_stable EXCEPT ![r] =
          verify_stability(heap[result[r].matches], candidate_preferences,
                           internship_preferences)]
    /\ pc' = [pc EXCEPT ![r] = "verified"]
    /\ UNCHANGED <<inputs, engine, free_candidates, iteration, result, gs>>

\* ---------------------------------- gale_shapley_matching, actions
GSView ==
    [tentative_matches       |-> tentative_matches,
     candidate_next_proposal |-> candidate_next_proposal,
     free_candidates         |-> free_candidates[1],
     iteration               |-> iteration[1]]

GSStore(st) ==
    /\ tentative_matches' = st.tentative_matches
    /\ candidate_next_proposal' = st.candidate_next_proposal
    /\ free_candidates' = [free_candidates EXCEPT ![1] = st.free_candidates]
    /\ iteration' = [iteration EXCEPT ![1] = st.iteration]
    /\ UNCHANGED <<inputs, engine, result, is_stable, final_matches>>

\* lines 64-72
GSStart ==
    /\ implementation = "StableMatchingEngine"
    /\ pc[1] = "idle"
    /\ pc' = [pc EXCEPT ![1] = "loop"]
    /\ free_candidates' = [free_candidates EXCEPT ![1] = DOMAIN candidate_preferences]
    /\ tentative_matches' = [p \in DOMAIN internship_preferences |-> <<>>]
    /\ candidate_next_proposal' = [c \in DOMAIN candidate_preferences |-> 0]
    /\ iteration' = [iteration EXCEPT ![1] = 0]
    /\ UNCHANGED <<inputs, engine, result, is_stable, final_matches>>

\* lines 74-84: the loop condition holds, pop() returns c and the iteration
\* takes the given branch
GSTaken(c, branch) ==
    /\ implementation = "StableMatchingEngine"
    /\ pc[1] = "loop"
    /\ LoopCondition(free_candidates[1], iteration[1],
                     candidate_preferences, internship_preferences)
    /\ GSBranch(GSView, c, candidate_preferences, internship_preferences,
                internship_capacities) = branch

GSIterated(c) ==
    GSLoopBody(GSView, c, candidate_preferences, internship_preferences,
               internship_capacities)

\* lines 79-81
GSPopExhausted ==
    \E c \in free_candidates[1] :
        /\ GSTaken(c, "exhausted")
        /\ GSStore(GSIterated(c))
        /\ UNCHANGED pc

\* lines 87-88: the internship proposed to is no key of tentative_matches
\* or of internship_capacities, and the call ends in a KeyError
GSKeyError ==
    \E c \in free_candidates[1] :
        /\ GSTaken(c, "keyerror")
        /\ GSStore(GSIterated(c))
        /\ pc' = [pc EXCEPT ![1] = "error"]

\* lines 90-92
GSAccept ==
    \E c \in free_candidates[1] :
        /\ GSTaken(c, "accept")
        /\ GSStore(GSIterated(c))
        /\ UNCHANGED pc

\* lines 113-117
GSReplace ==
    \E c \in free_candidates[1] :
        /\ GSTaken(c, "replace")
        /\ GSStore(GSIterated(c))
        /\ UNCHANGED pc

\* lines 118-123
GSReject ==
    \E c \in free_candidates[1] :
        /\ GSTaken(c, "reject")
        /\ GSStore(GSIterated(c))
        /\ UNCHANGED pc

\* lines 125-126: tentative_matches is returned
GSReturn ==
    /\ implementation = "StableMatchingEngine"
    /\ pc[1] = "loop"
    /\ ~LoopCondition(free_candidates[1], iteration[1],
                      candidate_preferences, internship_preferences)
    /\ pc' = [pc EXCEPT ![1] = "returned"]
    /\ UNCHANGED <<inputs, engine, free_candidates, iteration, result, is_stable, gs>>

\* run_complete_allocation lines 194-197: the matching returned is handed
\* to enforce_diversity_quotas and what it returns is the final matching
GSEnforce ==
    /\ implementation = "StableMatchingEngine"
    /\ pc[1] = "returned"
    /\ ~EnforceKeyError(tentative_matches, candidates)
    /\ final_matches' = enforce_diversity_quotas(tentative_matches, candidates)
    /\ pc' = [pc EXCEPT ![1] = "enforced"]
    /\ UNCHANGED <<inputs, engine, free_candidates, iteration, result, is_stable,
                   tentative_matches, candidate_next_proposal>>

\* enforce_diversity_quotas line 146: a placed candidate has no row
GSEnforceKeyError ==
    /\ implementation = "StableMatchingEngine"
    /\ pc[1] = "returned"
    /\ EnforceKeyError(tentative_matches, candidates)
    /\ pc' = [pc EXCEPT ![1] = "error"]
    /\ UNCHANGED <<inputs, engine, free_candidates, iteration, result, is_stable, gs>>

\* ------------------------------------------------------------- specifications
\* one call of run_allocation (run_stable_matching, then verify_stability),
\* or one call of gale_shapley_matching
Next ==
    \/ Start(1)
    \/ PopExhausted(1)
    \/ ProposeMissing(1)
    \/ ProposeUnacceptable(1)
    \/ Accept(1)
    \/ Replace(1)
    \/ Reject(1)
    \/ Return(1)
    \/ Verify(1)
    \/ GSStart
    \/ GSPopExhausted
    \/ GSKeyError
    \/ GSAccept
    \/ GSReplace
    \/ GSReject
    \/ GSReturn
    \/ GSEnforce

Spec == Init /\ [][Next]_vars

\* Two calls of run_allocation on the module-level matcher of app.py (line
\* 27), served by two threads: the steps of the two runs interleave at the
\* iteration boundaries. The lists are well-formed, over the candidates A and
\* B, and boosted (app.py line 178).
InitInputsShared ==
    /\ implementation = "StableMatchingAlgorithm"
    /\ \E D \in PositionSets :
          /\ candidate_preferences \in [{"A", "B"} -> DupFreeLists(D)]
          /\ internship_preferences \in
                {ip \in [D -> DupFreeLists({"A", "B"})] :
                    Mutual(candidate_preferences, ip)}
          /\ internship_capacities \in AscendingCapacities(D)
    /\ apply_quotas = TRUE
    /\ candidates = ("A" :> General) @@ ("B" :> Rural)

InitShared == InitInputsShared /\ InitEngine /\ InitLocals

NextShared ==
    \E r \in Runs :
        \/ Start(r)
        \/ PopExhausted(r)
        \/ Accept(r)
        \/ Replace(r)
        \/ Reject(r)
        \/ Return(r)
        \/ Verify(r)

SpecShared == InitShared /\ [][NextShared]_vars

\* Two calls of run_allocation on the module-level matcher, one after the
\* other: the second call starts when the first has returned and its
\* result has been verified.
StartAfter(earlier, later) == pc[earlier] = "verified" /\ Start(later)

NextSequential ==
    \/ Start(1)
    \/ PopExhausted(1)
    \/ Accept(1)
    \/ Replace(1)
    \/ Reject(1)
    \/ Return(1)
    \/ Verify(1)
    \/ StartAfter(1, 2)
    \/ PopExhausted(2)
    \/ Accept(2)
    \/ Replace(2)
    \/ Reject(2)
    \/ Return(2)
    \/ Verify(2)

SpecSequential == InitShared /\ [][NextSequential]_vars

\* Boosted runs over four candidates that all list only P1, whose capacity
\* ranges up to QuotaMaxCapacity; P2 lists nobody.
QuotaCandidates == {"A", "B", "C", "D"}
QuotaMaxCapacity == 3

InitInputsQuota ==
    /\ implementation = "StableMatchingAlgorithm"
    /\ candidate_preferences = [c \in QuotaCandidates |-> <<"P1">>]
    /\ internship_preferences \in
          {("P1" :> l) @@ ("P2" :> <<>>) : l \in Perms(QuotaCandidates)}
    /\ internship_capacities \in
          {("P1" :> k) @@ ("P2" :> 1) : k \in 1..QuotaMaxCapacity}
    /\ apply_quotas = TRUE
    /\ candidates \in
          {[c \in QuotaCandidates |-> IF c \in S THEN Rural ELSE General] :
              S \in {{"A"}, {"A", "B"}, {"A", "B", "C"}}}

\* One position of capacity 3 and six candidates that list only it: D, E, F
\* are not protected and lead the position's list, A (rural), B (SC) and
\* C (rural, ST) are protected and trail it.
SixCandidates == {"A", "B", "C", "D", "E", "F"}

InitInputsSix ==
    /\ implementation = "StableMatchingAlgorithm"
    /\ candidate_preferences = [c \in SixCandidates |-> <<"P1">>]
    /\ internship_preferences = ("P1" :> <<"D", "E", "F", "A", "B", "C">>)
    /\ internship_capacities = ("P1" :> 3)
    /\ apply_quotas = TRUE
    /\ candidates =
          [c \in SixCandidates |->
              CASE c = "A" -> Rural
                [] c = "B" -> [is_rural |-> FALSE, social_category |-> "SC"]
                [] c = "C" -> [is_rural |-> TRUE, social_category |-> "ST"]
                [] OTHER   -> General]

InitQuota == (InitInputsQuota \/ InitInputsSix) /\ InitEngine /\ InitLocals

NextQuota ==
    \/ Start(1)
    \/ PopExhausted(1)
    \/ Accept(1)
    \/ Replace(1)
    \/ Reject(1)
    \/ Return(1)
    \/ Verify(1)

SpecQuota == InitQuota /\ [][NextQuota]_vars

\* Calls with malformed arguments: lists with an id twice, lists naming a
\* position that has no preference list, position lists naming the id X that
\* is no candidate and has no record, a candidate B with no record, and a
\* capacity of P1 that is not positive.
MalformedCapacities == {0, 1}
ShortLists(S) == {l \in AnyLists(S) : Len(l) <= Cardinality(Positions)}

InitInputsMalformed ==
    /\ implementation \in {"StableMatchingAlgorithm", "StableMatchingEngine"}
    /\ candidate_preferences \in
          {("A" :> a) @@ ("B" :> b) :
              a \in AnyLists(Positions), b \in {<<"P1">>, <<"P2", "P1">>}}
    /\ internship_preferences \in
          {("P1" :> l) : l \in ShortLists({"A", "B", "X"})}
          \cup {("P1" :> l) @@ ("P2" :> m) :
                  l \in ShortLists({"A", "B", "X"}),
                  m \in {<<>>, <<"B">>, <<"A", "B">>}}
    /\ internship_capacities \in
          {("P1" :> k) @@ ("P2" :> 1) : k \in MalformedCapacities}
    /\ apply_quotas \in (IF implementation = "StableMatchingAlgorithm"
                         THEN BOOLEAN ELSE {FALSE})
    /\ candidates \in {("A" :> Rural) @@ ("B" :> General), ("A" :> Rural)}

InitMalformed == InitInputsMalformed /\ InitEngine /\ InitLocals

NextMalformed == Next \/ GSEnforceKeyError

SpecMalformed == InitMalformed /\ [][NextMalformed]_vars

\* Direct calls of check_quota_constraints(matches, candidates): the
\* matching assigns the first t <= StatsMaxMatched of the ids K1, K2, ...
\* to P1, the ids from the first or the second on have a record, and a run
\* of consecutive ids is rural.
StatsMaxMatched == 10

StatsId(i) == "K" \o ToString(i)

StatsIds(lo, hi) == {StatsId(i) : i \in lo..hi}

InitStats ==
    /\ implementation = "StableMatchingAlgorithm"
    /\ candidate_preferences = EmptyDict
    /\ internship_preferences = EmptyDict
    /\ internship_capacities = EmptyDict
    /\ apply_quotas = FALSE
    /\ \E first \in 1..2, lo \in 1..(StatsMaxMatched + 1), hi \in 0..(StatsMaxMatched + 1) :
          candidates = [c \in StatsIds(first, StatsMaxMatched + 1) |->
                           IF c \in StatsIds(lo, hi) THEN Rural ELSE General]
    /\ matches_ref = 0
    /\ \E t \in 0..StatsMaxMatched :
          heap = [o \in Refs |-> IF o = 0 THEN [c \in StatsIds(1, t) |-> "P1"]
                                 ELSE EmptyDict]
    /\ internship_current_matches = EmptyDict
    /\ candidate_proposals = EmptyDict
    /\ InitLocals

\* lines 49-86: check_quota_constraints is called on the matching and the
\* candidates and its statistics are kept
QuotaStats(r) ==
    /\ pc[r] = "idle"
    /\ result' = [result EXCEPT ![r].quota_stats =
                     check_quota_constraints(heap[matches_ref], candidates)]
    /\ pc' = [pc EXCEPT ![r] = "stats"]
    /\ UNCHANGED <<inputs, engine, free_candidates, iteration, is_stable, gs>>

NextStats == QuotaStats(1)

SpecStats == InitStats /\ [][NextStats]_vars

\* Calls of generate_preference_lists on the candidates A, B, C and the
\* internships P1, P2 in that order: each candidate is under age or of age,
\* and each pair has a score in 0..MaxScore.
MaxScore == 2

CandidateList == <<"A", "B", "C">>

InternshipList == <<"P1", "P2">>

InitLists ==
    /\ implementation = "StableMatchingAlgorithm"
    /\ candidate_preferences = EmptyDict
    /\ internship_preferences = EmptyDict
    /\ internship_capacities = EmptyDict
    /\ apply_quotas = TRUE
    /\ candidates = [c \in Range(CandidateList) |-> General]
    /\ age \in [Range(CandidateList) -> {20, 21}]
    /\ overall_score \in
          [Range(CandidateList) \X Range(InternshipList) -> 0..MaxScore]
    /\ InitEngine
    /\ LoadedCapacities
    /\ InitCalls

\* app.py lines 169-171: the preference lists are generated from the data
GeneratePreferenceLists ==
    /\ pc[1] = "idle"
    /\ LET lists == generate_preference_lists(CandidateList, InternshipList,
                                              age, overall_score)
       IN  /\ candidate_preferences' = lists.candidate_preferences
           /\ internship_preferences' = lists.internship_preferences
    /\ pc' = [pc EXCEPT ![1] = "generated"]
    /\ UNCHANGED <<candidates, internship_capacities, internships, apply_quotas,
                   implementation, ranking, greedy, engine, free_candidates,
                   iteration, result, is_stable, gs>>

NextLists == GeneratePreferenceLists

SpecLists == InitLists /\ [][NextLists]_vars

\* ---------------------------------- run_ai_native_allocation
\* unified_ai_engine.py lines 246-255: the matching runs on a matcher that
\* was constructed for this call and never loaded data (lines 12-16 of
\* matching_algorithm.py: its capacities are the empty dict), with boosting
\* on. The lists come from generate_ml_preference_lists, which gives every
\* candidate and every internship a list that is not empty; the capacities
\* are those of the internship records (unified_ai_engine.py line 161).
InitInputsNative ==
    \E D \in PositionSets :
        /\ implementation = "StableMatchingAlgorithm"
        /\ candidate_preferences \in
              [Candidates -> DupFreeLists(D) \ {<<>>}]
        /\ internship_preferences \in
              {ip \in [D -> DupFreeLists(Candidates) \ {<<>>}] :
                  Mutual(candidate_preferences, ip)}
        /\ internships \in AscendingCapacities(D)
        /\ internship_capacities = EmptyDict
        /\ apply_quotas = TRUE
        /\ candidates \in
              {[c \in Candidates |-> IF c \in S THEN Rural ELSE General] :
                  S \in RuralSets}

InitNative == InitInputsNative /\ InitEngine /\ NoRankingData /\ InitCalls

NextNative ==
    \/ Start(1)
    \/ PopExhausted(1)
    \/ Accept(1)
    \/ Replace(1)
    \/ Reject(1)
    \/ Return(1)

SpecNative == InitNative /\ [][NextNative]_vars

\* ---------------------------------- the two implementations side by side
\* run_stable_matching (slot 1) and gale_shapley_matching (slot 2) are
\* called with the same lists and capacities, boosting off, and their
\* pop() calls return the same candidate at each iteration as long as a
\* candidate is free in both; a loop that outlasts the other goes on alone. Every position
\* a candidate lists has a preference list and a capacity.
InitInputsBoth ==
    /\ implementation = "both"
    /\ InitInputsWellFormed({FALSE}) \/ InitInputsAny({FALSE})
    /\ \A c \in DOMAIN candidate_preferences :
          Range(candidate_preferences[c]) \subseteq DOMAIN internship_preferences

InitBoth == InitInputsBoth /\ InitEngine /\ InitLocals

\* what gale_shapley_matching sees at an iteration boundary, in slot 2
BothView ==
    [tentative_matches       |-> tentative_matches,
     candidate_next_proposal |-> candidate_next_proposal,
     free_candidates         |-> free_candidates[2],
     iteration               |-> iteration[2]]

\* the loop of the slot runs on
BothLoops(r) ==
    /\ pc[r] = "loop"
    /\ LoopCondition(free_candidates[r], iteration[r],
                     candidate_preferences, internship_preferences)

\* the state of the two calls after the iteration of each that is given
BothStore(a, b) ==
    /\ heap' = [heap EXCEPT ![matches_ref] = a.matches]
    /\ internship_current_matches' = a.internship_current_matches
    /\ candidate_proposals' = a.candidate_proposals
    /\ tentative_matches' = b.tentative_matches
    /\ candidate_next_proposal' = b.candidate_next_proposal
    /\ free_candidates' = [r \in Runs |->
          IF r = 1 THEN a.free_candidates ELSE b.free_candidates]
    /\ iteration' = [r \in Runs |-> IF r = 1 THEN a.iteration ELSE b.iteration]
    /\ UNCHANGED <<inputs, matches_ref, pc, result, is_stable, final_matches>>

\* matching_algorithm.py lines 161-175 of each file
BothStart ==
    /\ pc = [r \in Runs |-> "idle"]
    /\ pc' = [r \in Runs |-> "loop"]
    /\ free_candidates' = [r \in Runs |-> DOMAIN candidate_preferences]
    /\ iteration' = [r \in Runs |-> 0]
    /\ matches_ref' = 1
    /\ heap' = [heap EXCEPT ![1] = EmptyDict]
    /\ internship_current_matches' = EmptyDict
    /\ candidate_proposals' = EmptyDict
    /\ tentative_matches' = [p \in DOMAIN internship_preferences |-> <<>>]
    /\ candidate_next_proposal' = [c \in DOMAIN candidate_preferences |-> 0]
    /\ UNCHANGED <<inputs, result, is_stable, final_matches>>

\* one iteration of both loops, pop() returning c in both
BothIterate ==
    \E c \in free_candidates[1] \cap free_candidates[2] :
        /\ BothLoops(1) /\ BothLoops(2)
        /\ BothStore(LoopBody(View(1), c, candidate_preferences,
                              internship_preferences, internship_capacities),
                     GSLoopBody(BothView, c, candidate_preferences,
                                internship_preferences, internship_capacities))

\* one iteration of both loops when no candidate is free in both: each
\* pop() returns a candidate of its own set
BothIterateApart ==
    \E c \in free_candidates[1] : \E d \in free_candidates[2] :
        /\ BothLoops(1) /\ BothLoops(2)
        /\ free_candidates[1] \cap free_candidates[2] = {}
        /\ BothStore(LoopBody(View(1), c, candidate_preferences,
                              internship_preferences, internship_capacities),
                     GSLoopBody(BothView, d, candidate_preferences,
                                internship_preferences, internship_capacities))

\* the loop of gale_shapley_matching is over, run_stable_matching goes on
OnlyAlgorithmIterates ==
    \E c \in free_candidates[1] :
        /\ BothLoops(1) /\ pc[2] = "loop" /\ ~BothLoops(2)
        /\ BothStore(LoopBody(View(1), c, candidate_preferences,
                              internship_preferences, internship_capacities),
                     BothView)

\* the loop of run_stable_matching is over, gale_shapley_matching goes on
OnlyEngineIterates ==
    \E c \in free_candidates[2] :
        /\ BothLoops(2) /\ pc[1] = "loop" /\ ~BothLoops(1)
        /\ BothStore(View(1),
                     GSLoopBody(BothView, c, candidate_preferences,
                                internship_preferences, internship_capacities))

\* both loops are over and both calls return
BothReturn ==
    /\ pc = [r \in Runs |-> "loop"]
    /\ ~BothLoops(1) /\ ~BothLoops(2)
    /\ result' = [result EXCEPT ![1] =
          [matches           |-> matches_ref,
           quota_stats       |-> check_quota_constraints(heap[matches_ref], candidates),
           iterations        |-> iteration[1],
           algorithm_success |-> TRUE]]
    /\ pc' = [r \in Runs |-> "returned"]
    /\ UNCHANGED <<inputs, engine, free_candidates, iteration, is_stable, gs>>

NextBoth ==
    \/ BothStart
    \/ BothIterate
    \/ BothIterateApart
    \/ OnlyAlgorithmIterates
    \/ OnlyEngineIterates
    \/ BothReturn

SpecBoth == InitBoth /\ [][NextBoth]_vars

\* ---------------------------------- greedy_matching
\* Calls of greedy_matching on the scores calculate_all_scores builds (lines
\* 30-65: one entry for each candidate and each job, candidate by candidate)
\* for the candidates A, B, C and the jobs P1, P2: each pair has a score in
\* 0..MaxScore and each job 1..MaxCapacity spots.
ScoreEntries(pair_score) ==
    [k \in 1..(Len(CandidateList) * Len(InternshipList)) |->
        LET c == CandidateList[((k - 1) \div Len(InternshipList)) + 1]
            j == InternshipList[((k - 1) % Len(InternshipList)) + 1]
        IN  [candidate_id |-> c, job_id |-> j, score |-> pair_score[<<c, j>>]]]

InitGreedy ==
    /\ implementation = "MatchingAlgorithm"
    /\ candidate_preferences = EmptyDict
    /\ internship_preferences = EmptyDict
    /\ candidates = EmptyDict
    /\ internship_capacities = EmptyDict
    /\ internships = EmptyDict
    /\ apply_quotas = FALSE
    /\ scores \in
          {ScoreEntries(pair_score) :
              pair_score \in [Range(CandidateList) \X Range(InternshipList)
                                  -> 0..MaxScore]}
    /\ spots_available \in AscendingCapacities(Range(InternshipList))
    /\ available_spots = EmptyDict
    /\ assigned_candidates = {}
    /\ allocations = <<>>
    /\ score_index = 0
    /\ InitEngine
    /\ NoRankingData
    /\ NoCall

\* lines 75-87: the scores are sorted and the bookkeeping is set up
GreedyStart ==
    /\ implementation = "MatchingAlgorithm"
    /\ pc[1] = "idle"
    /\ available_spots' = spots_available
    /\ assigned_candidates' = {}
    /\ allocations' = <<>>
    /\ score_index' = 0
    /\ pc' = [pc EXCEPT ![1] = "greedy"]
    /\ UNCHANGED <<candidate_preferences, internship_preferences, candidates,
                   internship_capacities, internships, apply_quotas, implementation,
                   ranking, scores, spots_available, engine, free_candidates,
                   iteration, result, is_stable, gs>>

\* the entry the for loop of line 87 visits next
NextEntry == sorted_scores(scores)[score_index + 1]

\* lines 91-93: the entry is skipped
GreedySkip ==
    /\ pc[1] = "greedy"
    /\ score_index < Len(scores)
    /\ SkipsEntry(NextEntry.candidate_id, NextEntry.job_id,
                  assigned_candidates, available_spots)
    /\ score_index' = score_index + 1
    /\ UNCHANGED <<candidate_preferences, internship_preferences, candidates,
                   internship_capacities, internships, apply_quotas, implementation,
                   ranking, scores, spots_available, available_spots,
                   assigned_candidates, allocations, engine, locals, gs>>

\* lines 95-108: the assignment is made
GreedyAssign ==
    /\ pc[1] = "greedy"
    /\ score_index < Len(scores)
    /\ ~SkipsEntry(NextEntry.candidate_id, NextEntry.job_id,
                   assigned_candidates, available_spots)
    /\ allocations' = Append(allocations, Allocation(NextEntry, allocations))
    /\ assigned_candidates' = assigned_candidates \cup {NextEntry.candidate_id}
    /\ available_spots' =
          [available_spots EXCEPT ![NextEntry.job_id] = @ - 1]
    /\ score_index' = score_index + 1
    /\ UNCHANGED <<candidate_preferences, internship_preferences, candidates,
                   internship_capacities, internships, apply_quotas, implementation,
                   ranking, scores, spots_available, engine, locals, gs>>

\* line 110: the loop is over and the allocations are returned
GreedyReturn ==
    /\ pc[1] = "greedy"
    /\ score_index = Len(scores)
    /\ pc' = [pc EXCEPT ![1] = "greedy_returned"]
    /\ UNCHANGED <<inputs, engine, free_candidates, iteration, result, is_stable, gs>>

NextGreedy ==
    \/ GreedyStart
    \/ GreedySkip
    \/ GreedyAssign
    \/ GreedyReturn

SpecGreedy == InitGreedy /\ [][NextGreedy]_vars

\* ------------------------------------------------------------- vocabulary
RSM == implementation = "StableMatchingAlgorithm"
GS  == implementation = "StableMatchingEngine"

\* run r of run_stable_matching has returned
Returned(r) == RSM /\ pc[r] \in {"returned", "verified"}

\* the matching run r returned, as the dict holds it now
ReturnedMatches(r) == heap[result[r].matches]

\* c is unmatched, or ranks p above the position it is assigned
Prefers(m, cp, c, p) ==
    \/ c \notin DOMAIN m
    \/ m[c] \notin Range(cp[c])
    \/ IndexOf(cp[c], p) < IndexOf(cp[c], m[c])

\* p holds fewer candidates than its capacity, or ranks c above one it holds
WouldAdmit(m, ip, caps, c, p) ==
    \/ Cardinality(MatchedAt(m, p)) < CapacityOf(caps, p)
    \/ \E d \in MatchedAt(m, p) :
          d \notin Range(ip[p]) \/ IndexOf(ip[p], c) < IndexOf(ip[p], d)

BlockingPair(m, cp, ip, caps, c, p) ==
    /\ p \in Range(cp[c])
    /\ c \in Range(ip[p])
    /\ Get(m, c, "None") # p
    /\ Prefers(m, cp, c, p)
    /\ WouldAdmit(m, ip, caps, c, p)

Stable(m, cp, ip, caps) ==
    \A c \in DOMAIN cp : \A p \in DOMAIN ip : ~BlockingPair(m, cp, ip, caps, c, p)

\* the loop of run r stopped at the iteration bound with a free candidate
\* that still has entries of its list to propose to
StoppedEarly(r) ==
    /\ iteration[r] >= MaxIterations(candidate_preferences, EnginePrefs)
    /\ \E c \in free_candidates[r] :
          Get(candidate_proposals, c, 0) < Len(candidate_preferences[c])

\* ------------------------------------------------------------- C1
\* C1: on a well-formed instance the matching run_stable_matching returns
\* has no blocking pair with respect to the lists it matched on, whatever
\* the order in which free candidates were picked.
C1_ReturnedMatchingIsStable ==
    \A r \in Runs :
        (Returned(r) /\ WellFormed) =>
            Stable(ReturnedMatches(r), candidate_preferences, EnginePrefs,
                   internship_capacities)

\* ------------------------------------------------------------- C2
\* the candidates a position holds in the running implementation
HeldAt(p) ==
    IF RSM THEN Get(internship_current_matches, p, <<>>)
    ELSE Get(tentative_matches, p, <<>>)

\* C2: in every state of the proposal loop of run_stable_matching and of
\* gale_shapley_matching, and in what each returns, no position holds more
\* candidates than its capacity.
C2_CapacityInvariant ==
    /\ \A p \in DOMAIN internship_preferences :
          Len(HeldAt(p)) <= CapacityOf(internship_capacities, p)
    /\ \A p \in DOMAIN internship_preferences :
          Cardinality(MatchedAt(heap[matches_ref], p))
              <= CapacityOf(internship_capacities, p)
    /\ \A r \in Runs : \A p \in DOMAIN internship_preferences :
          Returned(r) =>
              Cardinality(MatchedAt(ReturnedMatches(r), p))
                  <= CapacityOf(internship_capacities, p)

\* a position is full and a candidate it turned away or evicted is left
\* unheld, with its list used up
C2_Witness ==
    /\ pc[1] \in {"loop", "returned"}
    /\ \E p \in DOMAIN internship_preferences :
          /\ Len(HeldAt(p)) = CapacityOf(internship_capacities, p)
          /\ CapacityOf(internship_capacities, p) = MaxCapacity
          /\ \E c \in Range(internship_preferences[p]) :
                /\ \A q \in DOMAIN internship_preferences : c \notin Range(HeldAt(q))
                /\ c \notin free_candidates[1]

\* ------------------------------------------------------------- C3
\* C3: every pair (c, p) of the matches run_stable_matching returns is
\* mutually acceptable: p is in c's list and c is in the list of p that the
\* run matched on (the boosted one under quotas), for any input lists.
C3_MutualAcceptability ==
    \A r \in Runs :
        Returned(r) =>
            \A c \in DOMAIN ReturnedMatches(r) :
                LET p == ReturnedMatches(r)[c]
                IN  /\ p \in Range(Get(candidate_preferences, c, <<>>))
                    /\ p \in DOMAIN EnginePrefs
                    /\ c \in Range(EnginePrefs[p])

\* lists that are not mutually consistent, boosted: a candidate was turned
\* away by a position that does not list it and is matched further down
C3_Witness ==
    /\ Returned(1)
    /\ apply_quotas
    /\ ~Mutual(candidate_preferences, EnginePrefs)
    /\ \E c \in DOMAIN ReturnedMatches(1) :
          LET first == candidate_preferences[c][1]
          IN  /\ ReturnedMatches(1)[c] # first
              /\ first \in DOMAIN EnginePrefs
              /\ c \notin Range(EnginePrefs[first])

\* ------------------------------------------------------------- C4
\* C4: verify_stability returns True for every matching run_stable_matching
\* returns on a well-formed instance, given the lists the run matched on.
C4_VerifierAcceptsOutput ==
    \A r \in Runs :
        (Returned(r) /\ WellFormed) =>
            verify_stability(ReturnedMatches(r), candidate_preferences, EnginePrefs)

\* a boosted run in which a candidate was evicted and is matched below its
\* first choice, so that the verifier compares it with the candidates held
C4_Witness ==
    /\ Returned(1)
    /\ WellFormed
    /\ apply_quotas
    /\ EnginePrefs # internship_preferences
    /\ \E c \in DOMAIN ReturnedMatches(1) :
          /\ CurrentRank(candidate_preferences[c], ReturnedMatches(1)[c]) > 0
          /\ MatchedAt(ReturnedMatches(1), candidate_preferences[c][1]) # {}

\* ------------------------------------------------------------- C5
\* C5: whenever the matching has a blocking pair (also one with an unmatched
\* candidate or with a position below its capacity), verify_stability
\* returns False.
C5_VerifierFlagsUnstable ==
    \A r \in Runs :
        (Returned(r) /\ WellFormed) =>
            (~Stable(ReturnedMatches(r), candidate_preferences, EnginePrefs,
                     internship_capacities)
                => ~verify_stability(ReturnedMatches(r), candidate_preferences,
                                     EnginePrefs))

\* ------------------------------------------------------------- C6
\* a run in which pop() always returns the first free candidate in
\* alphabetical order
CandidateOrder == <<"A", "B", "C", "D", "E", "F">>

FirstFree(free) ==
    CandidateOrder[CHOOSE i \in DOMAIN CandidateOrder :
        /\ CandidateOrder[i] \in free
        /\ \A j \in 1..(i - 1) : CandidateOrder[j] \notin free]

RECURSIVE RunLoop(_, _, _, _)
RunLoop(st, cp, ip, caps) ==
    IF LoopCondition(st.free_candidates, st.iteration, cp, ip)
    THEN RunLoop(LoopBody(st, FirstFree(st.free_candidates), cp, ip, caps), cp, ip, caps)
    ELSE st

SoloRun(cp, ip, cands, caps, quotas) ==
    RunLoop([matches |-> EmptyDict, internship_current_matches |-> EmptyDict,
             candidate_proposals |-> EmptyDict, free_candidates |-> DOMAIN cp,
             iteration |-> 0],
            cp, MatchedOn(ip, cands, quotas), caps)

\* C6: for identical inputs run_stable_matching returns the same matches
\* whichever free candidate pop() picks at each iteration (stated for the
\* well-formed instances).
C6_OrderIndependent ==
    \A r \in Runs :
        (Returned(r) /\ WellFormed) =>
            ReturnedMatches(r) =
                SoloRun(candidate_preferences, internship_preferences, candidates,
                        internship_capacities, apply_quotas).matches

\* ------------------------------------------------------------- C7
\* C7: a loop that stops at the iteration bound while a free candidate
\* still has an unexhausted list does not return a matching as a final
\* result with algorithm_success = True (stated for the well-formed
\* instances).
C7_BoundHitIsReported ==
    \A r \in Runs :
        (Returned(r) /\ WellFormed /\ StoppedEarly(r)) => ~result[r].algorithm_success

\* ------------------------------------------------------------- C8
\* the matchings of the instance: every candidate at a position of its list
\* or unmatched, within capacity
Matchings(cp, ip, caps) ==
    {m \in UNION {[S -> DOMAIN ip] : S \in SUBSET DOMAIN cp} :
        /\ \A c \in DOMAIN m : m[c] \in Range(cp[c]) /\ c \in Range(ip[m[c]])
        /\ \A p \in DOMAIN ip : Cardinality(MatchedAt(m, p)) <= CapacityOf(caps, p)}

\* the rank c gives to what it has in m; being unmatched ranks last
RankOfAssignment(m, cp, c) ==
    IF c \in DOMAIN m THEN IndexOf(cp[c], m[c]) ELSE Len(cp[c])

\* C8: on a well-formed instance every candidate ranks what the run assigns
\* it at least as high as what it has in any stable matching of the
\* instance (stability with respect to the lists matched on).
C8_CandidateOptimal ==
    \A r \in Runs :
        (Returned(r) /\ WellFormed) =>
            \A m \in Matchings(candidate_preferences, EnginePrefs, internship_capacities) :
                Stable(m, candidate_preferences, EnginePrefs, internship_capacities) =>
                    \A c \in DOMAIN candidate_preferences :
                        RankOfAssignment(ReturnedMatches(r), candidate_preferences, c)
                            <= RankOfAssignment(m, candidate_preferences, c)

\* ------------------------------------------------------------- C9
\* the matchings a run returns when it runs alone, over every order in
\* which pop() may pick the free candidates
RECURSIVE AllRunLoops(_, _, _, _)
AllRunLoops(st, cp, ip, caps) ==
    IF LoopCondition(st.free_candidates, st.iteration, cp, ip)
    THEN UNION {AllRunLoops(LoopBody(st, c, cp, ip, caps), cp, ip, caps) :
                    c \in st.free_candidates}
    ELSE {st.matches}

AllSoloMatches(cp, ip, cands, caps, quotas) ==
    AllRunLoops([matches |-> EmptyDict, internship_current_matches |-> EmptyDict,
                 candidate_proposals |-> EmptyDict, free_candidates |-> DOMAIN cp,
                 iteration |-> 0],
                cp, MatchedOn(ip, cands, quotas), caps)

\* C9: two runs that interleave on the shared matcher do not interfere: each
\* returns a matching it returns when run alone, and the held sets stay
\* within capacity.
C9_RunsDoNotInterfere ==
    \A r \in Runs :
        Returned(r) =>
            /\ ReturnedMatches(r) \in
                  AllSoloMatches(candidate_preferences, internship_preferences,
                                 candidates, internship_capacities, apply_quotas)
            /\ \A p \in DOMAIN internship_preferences :
                  Len(HeldAt(p)) <= CapacityOf(internship_capacities, p)

\* ------------------------------------------------------------- C10
\* C10: with the same candidates, lists and capacities, the run with the
\* 2:1 boosting reports a rural_percentage that is not below the one of the
\* run without boosting.
C10_QuotaMonotone ==
    \A r \in Runs :
        (Returned(r) /\ apply_quotas) =>
            result[r].quota_stats.rural_percentage >=
                check_quota_constraints(
                    SoloRun(candidate_preferences, internship_preferences, candidates,
                            internship_capacities, FALSE).matches,
                    candidates).rural_percentage

\* ------------------------------------------------------------- C11
\* C11: for every position whose list names no id twice, the list
\* apply_quota_boost produces holds every id of the original list, no id
\* that was not in the original list, and no id twice.
C11_BoostIsPermutation ==
    (RSM /\ apply_quotas /\ pc[1] # "idle") =>
        \A p \in DOMAIN internship_preferences :
            DupFree(internship_preferences[p]) =>
                /\ Range(internship_preferences[p]) \subseteq Range(EnginePrefs[p])
                /\ Range(EnginePrefs[p]) \subseteq Range(internship_preferences[p])
                /\ DupFree(EnginePrefs[p])

\* ------------------------------------------------------------- C12
\* the scenario: A=[P1,P2], B=[P1,P2], C=[P2,P1], P1=[A,B,C], P2=[C,A,B],
\* both capacities 1, boosting off
C12_Scenario ==
    /\ RSM
    /\ ~apply_quotas
    /\ candidate_preferences =
          ("A" :> <<"P1", "P2">>) @@ ("B" :> <<"P1", "P2">>) @@ ("C" :> <<"P2", "P1">>)
    /\ internship_preferences =
          ("P1" :> <<"A", "B", "C">>) @@ ("P2" :> <<"C", "A", "B">>)
    /\ internship_capacities = ("P1" :> 1) @@ ("P2" :> 1)

\* C12: in the scenario run_stable_matching returns exactly A->P1, C->P2
\* with B unmatched, whatever the picking order, and verify_stability
\* returns True on that result.
C12_ScenarioResult ==
    \A r \in Runs :
        (C12_Scenario /\ Returned(r)) =>
            /\ ReturnedMatches(r) = ("A" :> "P1") @@ ("C" :> "P2")
            /\ pc[r] = "verified" => is_stable[r]

\* the scenario was run in an order in which B was held by both positions
\* and evicted from both, and its result was verified
C12_Witness ==
    /\ C12_Scenario
    /\ pc[1] = "verified"
    /\ result[1].iterations = 5
    /\ Get(candidate_proposals, "B", 0) = 2

\* ------------------------------------------------------------- C13
\* the scenario, with A, B, C for X, Y, Z: one position P1 of capacity 2
\* whose list is [A,B,C], and three candidates that each list only P1
C13_Scenario ==
    /\ candidate_preferences = [c \in Candidates |-> <<"P1">>]
    /\ internship_preferences = ("P1" :> <<"A", "B", "C">>)
    /\ internship_capacities = ("P1" :> 2)
    /\ ~apply_quotas

\* C13: in the scenario both run_stable_matching and gale_shapley_matching
\* match exactly A and B to P1 and leave C unmatched, whatever the picking
\* order.
C13_ScenarioResult ==
    (C13_Scenario /\ pc[1] \in {"returned", "verified"}) =>
        /\ RSM => ReturnedMatches(1) = ("A" :> "P1") @@ ("B" :> "P1")
        /\ GS => /\ DOMAIN tentative_matches = {"P1"}
                 /\ Len(tentative_matches["P1"]) = 2
                 /\ Range(tentative_matches["P1"]) = {"A", "B"}

\* the scenario was run by run_stable_matching in an order in which C was
\* held first and evicted at the last iteration the bound allows
C13_Witness ==
    /\ C13_Scenario
    /\ RSM
    /\ Returned(1)
    /\ result[1].iterations = 3
    /\ "C" \in free_candidates[1]

\* the scenario was run by gale_shapley_matching and has returned
C13_WitnessEngine ==
    /\ C13_Scenario
    /\ GS
    /\ pc[1] = "returned"
    /\ "C" \in free_candidates[1]

\* ------------------------------------------------------------- C14
\* the scenario: one position of capacity 3, six candidates that list only
\* it, the three protected ones ranked below the three others, boosting on
C14_Scenario ==
    /\ RSM
    /\ apply_quotas
    /\ DOMAIN candidate_preferences = SixCandidates
    /\ DOMAIN internship_preferences = {"P1"}
    /\ internship_capacities["P1"] = 3

\* the protected candidates among those a matching assigns
ProtectedIn(m) ==
    {c \in DOMAIN m : c \in DOMAIN candidates /\ IsBoosted(candidates[c])}

\* C14: in the scenario run_stable_matching fills at least 2 of the 3 slots
\* with protected candidates, whatever the picking order.
C14_BoostFillsTwoSlots ==
    \A r \in Runs :
        (C14_Scenario /\ Returned(r)) =>
            /\ Cardinality(DOMAIN ReturnedMatches(r)) = 3
            /\ Cardinality(ProtectedIn(ReturnedMatches(r))) >= 2

\* the scenario was run in an order that spent an iteration on dropping an
\* evicted candidate, so that the bound ended the loop with a candidate
\* that never proposed
C14_Witness ==
    /\ C14_Scenario
    /\ Returned(1)
    /\ result[1].iterations = 6
    /\ \E c \in free_candidates[1] : Get(candidate_proposals, c, 0) = 0

\* ------------------------------------------------------------- C15
\* the matching the proposal loop has built: each held candidate at the
\* position that holds it
HeldMatching ==
    LET held == UNION {Range(internship_current_matches[p]) :
                          p \in DOMAIN internship_current_matches}
    IN  [c \in held |->
            CHOOSE p \in DOMAIN internship_current_matches :
                c \in Range(internship_current_matches[p])]

C15_WitnessQuota ==
    /\ Returned(1)
    /\ result[1].quota_stats.total_allocated > 0
    /\ ~result[1].quota_stats.meets_rural_quota

\* ------------------------------------------------------------- C16
\* C16: the statistics check_quota_constraints reports for a matching have
\* total_allocated equal to the number of matched candidates, rural_count
\* equal to the number of matched candidates whose is_rural flag is set, and
\* meets_rural_quota true exactly when total_allocated > 0 and
\* rural_count * 100 >= 30 * total_allocated.
C16_QuotaStatistics ==
    pc[1] = "stats" =>
        LET m == heap[matches_ref]
            stats == result[1].quota_stats
            flagged == {c \in DOMAIN m : c \in DOMAIN candidates /\ candidates[c].is_rural}
        IN  /\ stats.total_allocated = Cardinality(DOMAIN m)
            /\ stats.rural_count = Cardinality(flagged)
            /\ stats.meets_rural_quota <=>
                  (stats.total_allocated > 0
                   /\ stats.rural_count * 100 >= 30 * stats.total_allocated)

\* the statistics of ten matched candidates of which exactly three are
\* rural, with a rural candidate that is not matched
C16_Witness ==
    /\ pc[1] = "stats"
    /\ result[1].quota_stats.total_allocated = 10
    /\ result[1].quota_stats.rural_count = 3
    /\ result[1].quota_stats.meets_rural_quota
    /\ \E c \in DOMAIN candidates : candidates[c].is_rural /\ c \notin DOMAIN heap[matches_ref]

\* ------------------------------------------------------------- C17
\* a list names an id twice, or an id that is not in the universe of the
\* other side
MalformedLists ==
    \/ \E c \in DOMAIN candidate_preferences :
          \/ ~DupFree(candidate_preferences[c])
          \/ ~(Range(candidate_preferences[c]) \subseteq DOMAIN internship_preferences)
    \/ \E p \in DOMAIN internship_preferences :
          \/ ~DupFree(internship_preferences[p])
          \/ ~(Range(internship_preferences[p]) \subseteq DOMAIN candidate_preferences)

\* C17: on a malformed preference list the engine fails before the first
\* proposal: no candidate proposes, no held set changes and no matching is
\* returned.
C17_MalformedListsFailFast ==
    MalformedLists =>
        /\ \A c \in DOMAIN candidate_preferences :
              /\ Get(candidate_proposals, c, 0) = 0
              /\ Get(candidate_next_proposal, c, 0) = 0
        /\ \A p \in DOMAIN internship_preferences : HeldAt(p) = <<>>
        /\ pc[1] \notin {"returned", "verified", "enforced"}

\* ------------------------------------------------------------- C18
\* C18: when a position has a capacity <= 0 the run does not complete and
\* return a matching (stated for lists that are otherwise well-formed).
C18_InvalidCapacityFails ==
    (/\ ~MalformedLists
     /\ Mutual(candidate_preferences, internship_preferences)
     /\ \E p \in DOMAIN internship_preferences :
           CapacityOf(internship_capacities, p) <= 0) =>
        pc[1] \notin {"returned", "verified", "enforced"}

\* ------------------------------------------------------------- C19
\* the later run returns a matching that a run on a fresh instance returns
LaterRunIsFresh ==
    Returned(2) =>
        /\ ReturnedMatches(2) \in
              AllSoloMatches(candidate_preferences, internship_preferences,
                             candidates, internship_capacities, apply_quotas)
        /\ result[2].quota_stats =
              check_quota_constraints(ReturnedMatches(2), candidates)

\* once the earlier run has returned, no step changes what it returned
EarlierResultKept ==
    Returned(1) =>
        /\ result'[1] = result[1]
        /\ heap'[result[1].matches] = heap[result[1].matches]

\* C19: a run made after a previous run on the same instance returns a
\* matching that a run on a fresh instance returns, and the matches mapping
\* the earlier run returned is not changed by the later run.
C19_RunsAreIndependent == [](LaterRunIsFresh) /\ [][EarlierResultKept]_vars

\* both runs have returned, each a non-empty matching held in a dict of
\* its own
C19_Witness ==
    /\ Returned(1)
    /\ Returned(2)
    /\ result[1].matches # result[2].matches
    /\ ReturnedMatches(1) # EmptyDict
    /\ ReturnedMatches(2) # EmptyDict
    /\ \E c \in DOMAIN candidate_preferences : c \notin DOMAIN ReturnedMatches(2)

\* ------------------------------------------------------------- C20
\* the pair passed eligibility_filter
EligiblePair(c, p) == eligibility_filter(age[c])

\* C20: generate_preference_lists puts exactly the eligible pairs on both
\* sides: p is in c's list iff the pair is eligible iff c is in p's list,
\* for every non-negative score including 0.
C20_ListsHoldEligiblePairs ==
    pc[1] = "generated" =>
        \A c \in Range(CandidateList), p \in Range(InternshipList) :
            /\ p \in Range(candidate_preferences[c]) <=> EligiblePair(c, p)
            /\ EligiblePair(c, p) <=> c \in Range(internship_preferences[p])

\* ---------------------------------- C21
\* the position run 1 proposes to in this step, and the candidate proposing:
\* the proposal index of exactly one candidate grows in an iteration that
\* makes a proposal (line 192)
Proposer(c) ==
    /\ c \in DOMAIN candidate_preferences
    /\ Get(candidate_proposals', c, 0) = Get(candidate_proposals, c, 0) + 1
    /\ Get(candidate_proposals, c, 0) < Len(candidate_preferences[c])

ProposedTo(c) == candidate_preferences[c][Get(candidate_proposals, c, 0) + 1]

\* p turns c down in this step: c proposed to p, which lists c, and is not
\* held by p afterwards; or c was held by p and is not held afterwards
TurnedDown(c, p) ==
    \/ /\ Proposer(c)
       /\ ProposedTo(c) = p
       /\ p \in DOMAIN EnginePrefs
       /\ c \in Range(EnginePrefs[p])
       /\ c \notin Range(Get(internship_current_matches', p, <<>>))
    \/ /\ pc[1] = "loop" /\ pc'[1] = "loop"
       /\ c \in Range(Get(internship_current_matches, p, <<>>))
       /\ c \notin Range(Get(internship_current_matches', p, <<>>))

\* C21: a position never turns down an acceptable candidate while it holds
\* fewer candidates than the capacity of its internship record, on every
\* call path of run_stable_matching, run_ai_native_allocation included
C21_NoRejectionBelowCapacity ==
    [][\A c \in DOMAIN candidate_preferences : \A p \in DOMAIN internships :
          TurnedDown(c, p) =>
              Len(Get(internship_current_matches, p, <<>>)) >= internships[p]]_vars

\* ---------------------------------- C22
\* C22: whenever run_stable_matching returns, every candidate with a
\* preference list is in matches or has a proposal index equal to the length
\* of its list (stated for the well-formed instances).
C22_TerminalCondition ==
    \A r \in Runs :
        (Returned(r) /\ WellFormed) =>
            \A c \in DOMAIN candidate_preferences :
                \/ c \in DOMAIN ReturnedMatches(r)
                \/ Get(candidate_proposals, c, 0) = Len(candidate_preferences[c])

\* ---------------------------------- C23
\* the proposal index of c in the implementation that runs
ProposalIndex(c) ==
    IF RSM THEN Get(candidate_proposals, c, 0) ELSE Get(candidate_next_proposal, c, 0)

\* the held list of p in the implementation that runs
HeldList(p) ==
    IF RSM THEN Get(internship_current_matches, p, <<>>)
    ELSE Get(tentative_matches, p, <<>>)

\* the iteration count and the proposal indices stay within their bounds
LoopBounds ==
    /\ iteration[1] <= MaxIterations(candidate_preferences, internship_preferences)
    /\ \A c \in DOMAIN candidate_preferences :
          ProposalIndex(c) <= Len(candidate_preferences[c])

\* a step of the loop counts one iteration, moves the index of at most one
\* candidate, by one entry and forward, and a candidate joins a held list
\* only by consuming the entry of its list that names the position
LoopStep ==
    pc[1] = "loop" =>
        /\ iteration'[1] = iteration[1] + 1 \/ UNCHANGED <<iteration, engine, gs>>
        /\ \A c \in DOMAIN candidate_preferences :
              /\ ProposalIndex(c)' \in {ProposalIndex(c), ProposalIndex(c) + 1}
              /\ \A d \in DOMAIN candidate_preferences :
                    (ProposalIndex(c)' # ProposalIndex(c)
                        /\ ProposalIndex(d)' # ProposalIndex(d)) => c = d
              /\ \A p \in Positions :
                    (c \notin Range(HeldList(p)) /\ c \in Range(HeldList(p)')) =>
                        /\ ProposalIndex(c)' = ProposalIndex(c) + 1
                        /\ candidate_preferences[c][ProposalIndex(c)'] = p

\* C23: the proposal loop terminates on every input: the iteration count is
\* at most |candidates| x |positions| and grows with every iteration, each
\* proposal index only grows, one entry at a time, and never exceeds the
\* length of the list, so no entry of a list is proposed to twice.
C23_LoopTerminates == [](LoopBounds) /\ [][LoopStep]_vars

\* a run returned at the iteration bound, with a candidate that went through
\* a list of two entries
C23_Witness ==
    /\ Returned(1)
    /\ result[1].iterations =
          MaxIterations(candidate_preferences, internship_preferences)
    /\ \E c \in DOMAIN candidate_preferences :
          /\ Len(candidate_preferences[c]) = 2
          /\ ProposalIndex(c) = 2

\* ---------------------------------- C24
\* C24: the is_stable flag run_allocation reports for a run with
\* apply_quotas = True is the verdict for the quota-boosted lists the engine
\* matched on: it is True for every matching produced from well-formed
\* lists, whatever the protected flags (stated for the runs whose loop ran
\* to its end).
C24_VerdictIsForBoostedLists ==
    \A r \in Runs :
        (RSM /\ pc[r] = "verified" /\ WellFormed /\ apply_quotas /\ ~StoppedEarly(r)) =>
            is_stable[r]

\* ---------------------------------- C25
\* the largest index, in the list p is matched on, among the candidates p holds
LargestHeldIndex(p) ==
    LET held == Range(Get(internship_current_matches, p, <<>>))
    IN  CHOOSE i \in {IndexOf(EnginePrefs[p], h) : h \in held} :
            \A h \in held : IndexOf(EnginePrefs[p], h) <= i

\* c proposes in this step to the full position p, which lists c
ProposesToFull(c, p) ==
    /\ RSM
    /\ pc[1] = "loop"
    /\ Proposer(c)
    /\ ProposedTo(c) = p
    /\ p \in DOMAIN EnginePrefs
    /\ c \in Range(EnginePrefs[p])
    /\ Len(Get(internship_current_matches, p, <<>>))
          >= CapacityOf(internship_capacities, p)

\* the step admits c to p and evicts exactly the held candidate w
Evicts(c, p, w) ==
    LET matches == heap[matches_ref]
        held == Get(internship_current_matches, p, <<>>)
    IN  /\ w \in Range(held)
        /\ IndexOf(EnginePrefs[p], w) = LargestHeldIndex(p)
        /\ Range(internship_current_matches'[p]) = (Range(held) \ {w}) \cup {c}
        /\ Len(internship_current_matches'[p]) = Len(held)
        /\ \A q \in DOMAIN internship_current_matches' \ {p} :
              /\ q \in DOMAIN internship_current_matches
              /\ internship_current_matches'[q] = internship_current_matches[q]
        /\ heap'[matches_ref'] = Put([x \in DOMAIN matches \ {w} |-> matches[x]], c, p)
        /\ free_candidates'[1] = (free_candidates[1] \ {c}) \cup {w}

\* the step turns c down and changes no held set and no match
TurnsDown(c) ==
    /\ internship_current_matches' = internship_current_matches
    /\ heap'[matches_ref'] = heap[matches_ref]
    /\ free_candidates'[1] = free_candidates[1]

\* C25: when c proposes to a full position p that lists c (on a well-formed
\* instance), c is admitted iff its index in p's list is smaller than the
\* largest index among the candidates p holds; the evicted candidate is
\* exactly the held one with the largest index, it becomes free and loses
\* its match, and all other held sets are unchanged; if c is not admitted,
\* no held set and no match changes and c stays free.
C25_EvictionStep ==
    [][\A c \in DOMAIN candidate_preferences : \A p \in DOMAIN internship_preferences :
          (WellFormed /\ ProposesToFull(c, p)) =>
              IF IndexOf(EnginePrefs[p], c) < LargestHeldIndex(p)
              THEN \E w \in DOMAIN candidate_preferences : Evicts(c, p, w)
              ELSE TurnsDown(c)]_vars

\* a position of capacity 2 is full with two candidates of its list while a
\* candidate that it ranks below both, and that proposed to it, is free and
\* unmatched: the state an eviction or a refusal at that position leaves
C25_Witness ==
    /\ RSM /\ WellFormed /\ pc[1] = "loop"
    /\ \E p \in DOMAIN internship_preferences : \E w \in free_candidates[1] :
          /\ CapacityOf(internship_capacities, p) = 2
          /\ Len(Get(internship_current_matches, p, <<>>)) = 2
          /\ w \notin DOMAIN heap[matches_ref]
          /\ Get(candidate_proposals, w, 0) >= 1
          /\ candidate_preferences[w][Get(candidate_proposals, w, 0)] = p
          /\ IndexOf(EnginePrefs[p], w) > LargestHeldIndex(p)

\* ---------------------------------- C26
\* C26: in gale_shapley_matching, for any input lists, no held set ever
\* contains a candidate that is absent from the preference list of that
\* position: a proposal by a candidate the position does not list is
\* rejected.
C26_EngineHoldsOnlyListed ==
    GS => \A p \in DOMAIN tentative_matches :
              /\ p \in DOMAIN internship_preferences
              /\ Range(tentative_matches[p]) \subseteq Range(internship_preferences[p])

\* ---------------------------------- C27
\* c has a record that makes it a protected candidate
Protected(c) == c \in DOMAIN candidates /\ IsBoosted(candidates[c])

NonProtected(c) == c \in DOMAIN candidates /\ ~IsBoosted(candidates[c])

\* boosted is original with both sublists in their original order and, as
\* long as entries of both sublists are still to come, the entries at the
\* positions 1, 2 of every three protected and the one at position 3 not
TwoToOnePattern(original, boosted) ==
    LET protected == SelectSeq(original, Protected)
        others    == SelectSeq(original, NonProtected)
        Before(k, Kind(_)) == Len(SelectSeq(SubSeq(boosted, 1, k - 1), Kind))
    IN  /\ SelectSeq(boosted, Protected) = protected
        /\ SelectSeq(boosted, NonProtected) = others
        /\ Len(boosted) = Len(protected) + Len(others)
        /\ \A k \in DOMAIN boosted :
              (Before(k, Protected) < Len(protected)
                  /\ Before(k, NonProtected) < Len(others)) =>
                  (Protected(boosted[k]) <=> (k - 1) % 3 \in {0, 1})

\* C27: apply_quota_boost keeps, in each boosted list, the relative order of
\* the protected candidates and of the non-protected candidates, and while
\* both sublists still have entries it emits two protected, then one
\* non-protected, repeatedly; when one sublist is used up the rest of the
\* other follows in order.
C27_BoostPattern ==
    (RSM /\ apply_quotas) =>
        \A p \in DOMAIN internship_preferences :
            TwoToOnePattern(internship_preferences[p], EnginePrefs[p])

\* a run was started on a list of three protected and three other candidates
\* that the boost reordered
C27_Witness ==
    /\ RSM /\ apply_quotas /\ pc[1] # "idle"
    /\ \E p \in DOMAIN internship_preferences :
          /\ Len(SelectSeq(internship_preferences[p], Protected)) = 3
          /\ Len(SelectSeq(internship_preferences[p], NonProtected)) = 3
          /\ EnginePrefs[p] # internship_preferences[p]

\* ---------------------------------- C28
\* C28: for the same preference lists, capacities (>= 1) and order of
\* picking free candidates, with boosting off, gale_shapley_matching and
\* run_stable_matching end with the same assignment: c is in the held list
\* of p in the one exactly when matches[c] = p in the other.
C28_SameAssignment ==
    (pc = [r \in Runs |-> "returned"] /\ implementation = "both") =>
        \A c \in DOMAIN candidate_preferences : \A p \in DOMAIN internship_preferences :
            (c \in Range(tentative_matches[p]))
                <=> (c \in DOMAIN heap[result[1].matches]
                        /\ heap[result[1].matches][c] = p)

\* ---------------------------------- C29
\* C29: at every iteration boundary of the proposal loop of
\* run_stable_matching, matches[c] = p iff c is in
\* internship_current_matches[p]; no candidate is in two held lists or twice
\* in one; and no candidate is in free_candidates while it is matched.
C29_RecordsAgree ==
    (RSM /\ pc[1] \in {"loop", "returned"}) =>
        LET matches == heap[matches_ref]
            held(p) == Get(internship_current_matches, p, <<>>)
            ids == DOMAIN matches \cup DOMAIN candidate_preferences
                      \cup UNION {Range(held(p)) : p \in DOMAIN internship_current_matches}
            positions == DOMAIN internship_current_matches \cup Range(matches)
                            \cup DOMAIN internship_preferences
        IN  /\ \A c \in ids : \A p \in positions :
                  (c \in DOMAIN matches /\ matches[c] = p) <=> c \in Range(held(p))
            /\ \A p \in positions : DupFree(held(p))
            /\ \A p, q \in positions :
                  p # q => Range(held(p)) \cap Range(held(q)) = {}
            /\ free_candidates[1] \cap DOMAIN matches = {}

\* an iteration boundary at which both positions hold a candidate and a
\* candidate that was turned away or evicted is free again
C29_Witness ==
    /\ RSM /\ pc[1] = "loop"
    /\ \A p \in Positions : Get(internship_current_matches, p, <<>>) # <<>>
    /\ \E c \in free_candidates[1] : Get(candidate_proposals, c, 0) >= 1
    /\ Cardinality(DOMAIN heap[matches_ref]) >= 2

\* ---------------------------------- C30
\* the allocations of the result that name candidate c, and job j
AllocationsOf(c) == {k \in DOMAIN allocations : allocations[k].candidate_id = c}

AllocationsAt(j) == {k \in DOMAIN allocations : allocations[k].job_id = j}

\* the scored pair is in the result
Allocated(e) ==
    \E k \in DOMAIN allocations :
        /\ allocations[k].candidate_id = e.candidate_id
        /\ allocations[k].job_id = e.job_id

\* C30: in the result of greedy_matching every candidate has at most one
\* allocation and every job at most spots_available allocations, and for
\* every scored pair (c, j) that is not allocated, c is allocated to a pair
\* whose score is at least that of (c, j), or j has all its spots filled by
\* pairs whose scores are at least that of (c, j).
C30_GreedyKeepsBest ==
    pc[1] = "greedy_returned" =>
        /\ \A c \in Range(CandidateList) : Cardinality(AllocationsOf(c)) <= 1
        /\ \A j \in DOMAIN spots_available :
              Cardinality(AllocationsAt(j)) <= spots_available[j]
        /\ \A i \in DOMAIN scores :
              LET e == scores[i]
              IN  ~Allocated(e) =>
                      \/ \E k \in AllocationsOf(e.candidate_id) :
                            allocations[k].score >= e.score
                      \/ /\ Cardinality(AllocationsAt(e.job_id))
                               = spots_available[e.job_id]
                         /\ \A k \in AllocationsAt(e.job_id) :
                               allocations[k].score >= e.score

\* a result in which a pair was passed over because its job was filled by
\* better pairs, its candidate ending in a pair of lower score, while another
\* pair was passed over because its candidate was already assigned and its
\* job still has a spot
C30_Witness ==
    /\ pc[1] = "greedy_returned"
    /\ \E i \in DOMAIN scores :
          /\ ~Allocated(scores[i])
          /\ \E k \in AllocationsOf(scores[i].candidate_id) :
                allocations[k].score < scores[i].score
    /\ \E i \in DOMAIN scores :
          /\ ~Allocated(scores[i])
          /\ available_spots[scores[i].job_id] > 0
====
